---- MODULE Spec2Model ----
(***************************************************************************)
(* feed-rs, parser/mediarss.rs: the MediaRSS element dispatcher, its leaf  *)
(* handlers and the "normal play time" (NPT) duration decoder.             *)
(*                                                                         *)
(* Texts (attribute values, NPT strings) are sequences of one-character    *)
(* strings.  Unsigned integers keep their width: a u64 is four 16-bit      *)
(* limbs and a u32 two, least significant first, so that overflow is what  *)
(* the machine does.  The f32 arithmetic of the fractional seconds is      *)
(* IEEE-754 binary32 with round-to-nearest-even, carried out on integers.  *)
(***************************************************************************)
EXTENDS Integers, Sequences, FiniteSets, TLC

VARIABLES
    media_obj,        \* the accumulator of handle_media_group
    doc,              \* the children the group's iterator has yielded so far
    trace,            \* the calls, returns and commits on the accumulator
    result,           \* what handle_media_group returned, once it has
    overflow_checks,  \* whether the build panics on integer overflow
    npt_text,         \* the text parse_npt is applied to
    npt_out           \* what parse_npt made of it

vars == <<media_obj, doc, trace, result, overflow_checks, npt_text, npt_out>>

group_vars == <<media_obj, doc, trace, result>>

npt_vars == <<npt_text, npt_out>>

(***************************************************************************)
(* Characters.                                                             *)
(***************************************************************************)
Digits == <<"0", "1", "2", "3", "4", "5", "6", "7", "8", "9">>

AsciiDigits == {Digits[i] : i \in 1..10}

\* A decimal digit outside ASCII (U+0663 ARABIC-INDIC DIGIT THREE): the regex
\* class \d is Unicode-aware and accepts it, the integer and float parsers of
\* the standard library do not.
ArabicThree == "u0663"

IsDigit(c) == c \in AsciiDigits \/ c = ArabicThree

DigitVal(c) == (CHOOSE i \in 1..10 : Digits[i] = c) - 1

At(t, i) == IF i \in 1..Len(t) THEN t[i] ELSE ""

\* The index just past the longest run of \d characters that starts at i.
DigitRunEnd(t, i) ==
    CHOOSE j \in i..(Len(t) + 1) :
        /\ \A k \in i..(j - 1) : IsDigit(t[k])
        /\ ~IsDigit(At(t, j))

(***************************************************************************)
(* Fixed-width unsigned integers.                                          *)
(***************************************************************************)
LimbBase == 2 ^ 16

ZeroLimbs(n) == [i \in 1..n |-> 0]

\* x * k + a over little-endian limbs; the last element of the result is the
\* carry out of the top limb (what does not fit in the width).
RECURSIVE LimbsMulAdd(_, _, _)
LimbsMulAdd(x, k, a) ==
    IF x = <<>> THEN <<a>>
    ELSE LET t == Head(x) * k + a
         IN  <<t % LimbBase>> \o LimbsMulAdd(Tail(x), k, t \div LimbBase)

\* x + y over little-endian limbs of the same length, with the carry last.
RECURSIVE LimbsAdd(_, _, _)
LimbsAdd(x, y, c) ==
    IF x = <<>> THEN <<c>>
    ELSE LET t == Head(x) + Head(y) + c
         IN  <<t % LimbBase>> \o LimbsAdd(Tail(x), Tail(y), t \div LimbBase)

Carry(r) == r[Len(r)]

Low(r) == SubSeq(r, 1, Len(r) - 1)

\* A small natural as limbs, and back (for values below 2^31).
ToLimbs(v, n) ==
    [i \in 1..n |-> IF i = 1 THEN v % LimbBase ELSE IF i = 2 THEN v \div LimbBase ELSE 0]

IsSmall(x) == x[2] < 2 ^ 15 /\ \A i \in 3..Len(x) : x[i] = 0

ToNat(x) == x[1] + x[2] * LimbBase

ParseFail == [ok |-> FALSE]

\* core::num: each digit is folded in with checked_mul(10), checked_add(d).
RECURSIVE from_str_digits(_, _)
from_str_digits(acc, d) ==
    IF d = <<>> THEN [ok |-> TRUE, v |-> acc]
    ELSE IF Head(d) \notin AsciiDigits THEN ParseFail
    ELSE LET r == LimbsMulAdd(acc, 10, DigitVal(Head(d)))
         IN  IF Carry(r) # 0 THEN ParseFail
             ELSE from_str_digits(Low(r), Tail(d))

\* str::parse::<uN>() for an unsigned integer of n limbs: an optional "+",
\* then at least one ASCII digit; a value beyond the width is an error.
parse_unsigned(str, n) ==
    LET body == IF str # <<>> /\ Head(str) = "+" THEN Tail(str) ELSE str
    IN  IF body = <<>> THEN ParseFail ELSE from_str_digits(ZeroLimbs(n), body)

parse_u64(str) == parse_unsigned(str, 4)

parse_u32(str) == parse_unsigned(str, 2)

(***************************************************************************)
(* binary32 arithmetic of parse_npt_add_frac_sec.  A positive float is     *)
(* [m, k], the value m / 2^k with 2^23 <= m < 2^24; zero is m = 0.         *)
(***************************************************************************)
F32Zero == [m |-> 0, k |-> 0]

\* Long division a / b for 0 < a < b < 2^24, one quotient bit at a time, until
\* the quotient has 24 significant bits: <<quotient, remainder, bits>>.
RECURSIVE F32DivBits(_, _, _, _)
F32DivBits(r, b, m, k) ==
    IF m >= 2 ^ 23 THEN <<m, r, k>>
    ELSE LET bit == IF 2 * r >= b THEN 1 ELSE 0
         IN  F32DivBits(2 * r - bit * b, b, 2 * m + bit, k + 1)

\* Round to nearest, ties to even, and renormalise: q is the truncated
\* significand, up says the discarded part exceeds half, tie that it is half.
F32Round(q, up, tie, k) ==
    LET m == IF up \/ (tie /\ q % 2 = 1) THEN q + 1 ELSE q
    IN  IF m = 2 ^ 24 THEN [m |-> 2 ^ 23, k |-> k - 1] ELSE [m |-> m, k |-> k]

\* num / denom in f32, for integers 0 <= num < denom < 2^24 (both exact).
F32Div(num, denom) ==
    IF num = 0 THEN F32Zero
    ELSE LET d == F32DivBits(num, denom, 0, 0)
         IN  F32Round(d[1], 2 * d[2] > denom, 2 * d[2] = denom, d[3])

\* 1000f32 * x in f32.  The exact product 1000 * m has 33 or 34 bits; it is
\* taken apart so that no intermediate value exceeds 31 bits.
F32Mul1000(x) ==
    IF x.m = 0 THEN F32Zero
    ELSE LET Q(s) == 1000 * (x.m \div 2 ^ s) + (1000 * (x.m % 2 ^ s)) \div 2 ^ s
             R(s) == (1000 * (x.m % 2 ^ s)) % 2 ^ s
             s == IF Q(9) >= 2 ^ 24 THEN 10 ELSE 9
         IN  F32Round(Q(s), R(s) > 2 ^ (s - 1), R(s) = 2 ^ (s - 1), x.k - s)

\* `as u64` of a non-negative float below 2^24: truncation toward zero.
F32AsU64(x) ==
    IF x.m = 0 \/ x.k >= 24 THEN 0
    ELSE IF x.k <= 0 THEN x.m * 2 ^ (0 - x.k)
    ELSE x.m \div 2 ^ x.k

(***************************************************************************)
(* The two NPT grammars.  Regex::captures searches the text for the        *)
(* leftmost match; neither pattern is anchored.                            *)
(***************************************************************************)
NoCaptures == [matched |-> FALSE]

\* The optional group (\.(?P<f>\d+))? tried at position p.
FracAt(t, p) ==
    IF At(t, p) = "." /\ IsDigit(At(t, p + 1))
    THEN [some |-> TRUE, str |-> SubSeq(t, p + 1, DigitRunEnd(t, p + 1) - 1)]
    ELSE [some |-> FALSE, str |-> <<>>]

\* (?P<h>\d+):(?P<m>\d{2}):(?P<s>\d{2})(\.(?P<f>\d+))? matched at position i.
HhmmssAt(t, i) ==
    LET j == DigitRunEnd(t, i)
    IN  /\ j > i
        /\ At(t, j) = ":"
        /\ IsDigit(At(t, j + 1)) /\ IsDigit(At(t, j + 2))
        /\ At(t, j + 3) = ":"
        /\ IsDigit(At(t, j + 4)) /\ IsDigit(At(t, j + 5))

NPT_HHMMSS(t) ==
    IF \E i \in 1..Len(t) : HhmmssAt(t, i)
    THEN LET i == CHOOSE i \in 1..Len(t) :
                      HhmmssAt(t, i) /\ \A i2 \in 1..(i - 1) : ~HhmmssAt(t, i2)
             j == DigitRunEnd(t, i)
         IN  [matched |-> TRUE,
              h |-> SubSeq(t, i, j - 1),
              m |-> SubSeq(t, j + 1, j + 2),
              s |-> SubSeq(t, j + 4, j + 5),
              f |-> FracAt(t, j + 6)]
    ELSE NoCaptures

\* (?P<s>\d+)(\.(?P<f>\d+))?
NPT_SEC(t) ==
    IF \E i \in 1..Len(t) : IsDigit(t[i])
    THEN LET i == CHOOSE i \in 1..Len(t) :
                      IsDigit(t[i]) /\ \A i2 \in 1..(i - 1) : ~IsDigit(t[i2])
             j == DigitRunEnd(t, i)
         IN  [matched |-> TRUE, s |-> SubSeq(t, i, j - 1), f |-> FracAt(t, j)]
    ELSE NoCaptures

(***************************************************************************)
(* parse_npt.  Outcomes: [kind |-> "none"], [kind |-> "some", secs, ms]    *)
(* (a Duration: whole seconds as a u64, and milliseconds below 1000), or   *)
(* [kind |-> "panic"] when an unwrap() or a checked operation aborts.      *)
(* `checks` says whether the build has integer overflow checks (debug      *)
(* assertions) on: with them an overflowing * or += panics, without them   *)
(* it wraps.                                                               *)
(***************************************************************************)
Panic == [kind |-> "panic"]

NoValue == [kind |-> "none"]

SomeDuration(secs, ms) == [kind |-> "some", secs |-> secs, ms |-> ms]

\* frac.parse::<f32>().unwrap(): a digit string of at most 7 ASCII digits is an
\* integer below 2^24 and is exact in f32.
parse_f32_int(frac) ==
    LET p == parse_unsigned(frac, 2)
    IN  IF p.ok /\ Len(frac) <= 7 THEN [ok |-> TRUE, v |-> ToNat(p.v)] ELSE ParseFail

\* The milliseconds parse_npt_add_frac_sec computes from a captured fraction.
frac_millis(frac) ==
    LET denom == 10 ^ Len(frac)
        num == parse_f32_int(frac).v
    IN  F32AsU64(F32Mul1000(F32Div(num, denom)))

parse_npt_add_frac_sec(duration, captures) ==
    IF captures.f.some
    THEN IF ~parse_f32_int(captures.f.str).ok THEN Panic
         ELSE LET millis == frac_millis(captures.f.str)
                  \* Duration + Duration: from_millis(1000) is one whole second,
                  \* and the sum of the seconds is checked.
                  sum == LimbsAdd(duration.secs, ToLimbs(millis \div 1000, 4), 0)
              IN  IF Carry(sum) # 0 THEN Panic
                  ELSE SomeDuration(Low(sum), duration.ms + (millis % 1000))
    ELSE duration

parse_npt_hhmmss(captures, checks) ==
    LET s == parse_u64(captures.s)
        m == parse_u64(captures.m)
        h == parse_u64(captures.h)
    IN  IF ~s.ok \/ ~m.ok \/ ~h.ok THEN Panic
        ELSE LET m60 == LimbsMulAdd(m.v, 60, 0)
                 sm == LimbsAdd(s.v, Low(m60), 0)
                 h3600 == LimbsMulAdd(h.v, 3600, 0)
                 seconds == LimbsAdd(Low(sm), Low(h3600), 0)
                 overflow == Carry(m60) # 0 \/ Carry(sm) # 0
                             \/ Carry(h3600) # 0 \/ Carry(seconds) # 0
             IN  IF overflow /\ checks THEN Panic
                 ELSE parse_npt_add_frac_sec(SomeDuration(Low(seconds), 0), captures)

parse_npt_sec(captures) ==
    LET s == parse_u64(captures.s)
    IN  IF ~s.ok THEN Panic
        ELSE parse_npt_add_frac_sec(SomeDuration(s.v, 0), captures)

parse_npt(text, checks) ==
    IF NPT_HHMMSS(text).matched THEN parse_npt_hhmmss(NPT_HHMMSS(text), checks)
    ELSE IF NPT_SEC(text).matched THEN parse_npt_sec(NPT_SEC(text))
    ELSE NoValue

(***************************************************************************)
(* Elements, as the tree walker hands them over.  A child of an element    *)
(* is either an element or a decode failure of the walker.  `body` is what *)
(* child_as_text() / children_as_string() return for the element: no       *)
(* content, a string, or a decode failure.                                 *)
(***************************************************************************)
MediaRSS == "MediaRSS"

OtherNS == "Other"

Attr(name, value) == [name |-> name, value |-> value]

El(ns, tag, attrs, children, body) ==
    [decode |-> "ok", ns |-> ns, tag |-> tag, attrs |-> attrs,
     children |-> children, body |-> body]

DecodeErr == [decode |-> "err"]

NoBody == [k |-> "absent"]

BodyText(str) == [k |-> "text", s |-> str]

BodyErr == [k |-> "err"]

\* Option<T>: None is the empty sequence, Some(x) the sequence of x alone.
None == <<>>

Some(x) == <<x>>

\* ParseFeedResult<T>, and the abort of the thread by a panic.
Ok(v) == [kind |-> "ok", v |-> v]

Err(e) == [kind |-> "err", e |-> e]

XmlError == [error |-> "XmlReader"]

UnknownMimeType(value) == [error |-> "UnknownMimeType", arg |-> value]

MissingContent(what) == [error |-> "MissingContent", arg |-> what]

PLAIN == <<"p", "l", "a", "i", "n">>

HTML == <<"h", "t", "m", "l">>

TEXT_PLAIN == "text/plain"

TEXT_HTML == "text/html"

\* if_ok_then_some applied to an unsigned attribute: Some(v) replaces the
\* field when the value parses, the field is kept when it does not.
SetIfOk(old, parsed) == IF parsed.ok THEN Some(parsed.v) ELSE old

\* attr.value.parse::<Mime>(): a type, a "/" and a subtype.
parse_mime(value) ==
    IF \E i \in 2..(Len(value) - 1) :
           value[i] = "/" /\ \A j \in 1..Len(value) : j # i => value[j] \notin {"/", " "}
    THEN [ok |-> TRUE, v |-> value]
    ELSE ParseFail

(***************************************************************************)
(* handle_text: a title or description element.                            *)
(***************************************************************************)
type_attr_of(element) ==
    IF \E i \in 1..Len(element.attrs) : element.attrs[i].name = "type"
    THEN LET i == CHOOSE i \in 1..Len(element.attrs) :
                      /\ element.attrs[i].name = "type"
                      /\ \A j \in 1..(i - 1) : element.attrs[j].name # "type"
         IN  element.attrs[i].value
    ELSE PLAIN

\* handle_text with the arms of the `type` match merged: any value of `type`
\* other than "html" is taken for plain text.
handle_text_lenient(element) ==
    LET type_attr == type_attr_of(element)
    IN  IF element.body.k = "err" THEN Err(XmlError)
        ELSE IF element.body.k = "absent" THEN Err(MissingContent("text"))
        ELSE Ok(Some([content |-> element.body.s,
                      content_type |-> IF type_attr = HTML THEN TEXT_HTML ELSE TEXT_PLAIN]))

\* handle_text with the content read before the `type` attribute is matched.
handle_text_content_first(element) ==
    LET type_attr == type_attr_of(element)
    IN  IF element.body.k = "err" THEN Err(XmlError)
        ELSE IF element.body.k = "absent" THEN Err(MissingContent("text"))
        ELSE IF type_attr # PLAIN /\ type_attr # HTML THEN Err(UnknownMimeType(type_attr))
        ELSE Ok(Some([content |-> element.body.s,
                      content_type |-> IF type_attr = PLAIN THEN TEXT_PLAIN
                                       ELSE TEXT_HTML]))

handle_text(element) ==
    LET type_attr == type_attr_of(element)
    IN  IF type_attr # PLAIN /\ type_attr # HTML THEN Err(UnknownMimeType(type_attr))
        ELSE IF element.body.k = "err" THEN Err(XmlError)
        ELSE IF element.body.k = "absent" THEN Err(MissingContent("text"))
        ELSE Ok(Some([content |-> element.body.s,
                      content_type |-> IF type_attr = PLAIN THEN TEXT_PLAIN
                                       ELSE TEXT_HTML]))

(***************************************************************************)
(* handle_media_thumbnail                                                  *)
(***************************************************************************)
\* if_some_then(parse_npt(..), |npt| field = Some(npt)), or the panic.
SetIfNpt(old, npt) == IF npt.kind = "some" THEN Some(npt) ELSE old

\* One turn of the loop over the attributes of media:thumbnail.
thumbnail_time(t, npt) == IF npt = Panic THEN Panic ELSE [t EXCEPT !.time = SetIfNpt(@, npt)]

thumbnail_attr(a, t, checks) ==
    CASE a.name = "url" -> [t EXCEPT !.url = Some(a.value)]
      [] a.name = "width" -> [t EXCEPT !.width = SetIfOk(@, parse_u32(a.value))]
      [] a.name = "height" -> [t EXCEPT !.height = SetIfOk(@, parse_u32(a.value))]
      [] a.name = "time" -> thumbnail_time(t, parse_npt(a.value, checks))
      [] OTHER -> t

\* The loop over the attributes; a panic ends it.
RECURSIVE thumbnail_attrs(_, _, _)
thumbnail_attrs(attrs, t, checks) ==
    IF attrs = <<>> \/ t = Panic THEN t
    ELSE thumbnail_attrs(Tail(attrs), thumbnail_attr(Head(attrs), t, checks), checks)

\* What is assembled from the attributes: a thumbnail when there is a url.
thumbnail_of(t) ==
    IF t = Panic THEN Panic
    ELSE IF t.url # None
    THEN Ok(Some([image |-> [uri |-> t.url[1], width |-> t.width, height |-> t.height],
                  time |-> t.time]))
    ELSE Ok(None)

handle_media_thumbnail(element, checks) ==
    thumbnail_of(thumbnail_attrs(element.attrs,
                     [url |-> None, width |-> None, height |-> None, time |-> None], checks))

(***************************************************************************)
(* handle_media_credit, handle_media_text                                  *)
(***************************************************************************)
handle_media_credit(element) ==
    IF element.body.k = "err" THEN Err(XmlError)
    ELSE IF element.body.k = "absent" THEN Ok(None)
    ELSE Ok(Some([entity |-> element.body.s]))

\* One turn of the loop over the attributes of media:text.
text_time(t, field, npt) == IF npt = Panic THEN Panic ELSE [t EXCEPT ![field] = SetIfNpt(@, npt)]

text_attr(a, t, checks) ==
    CASE a.name \in {"start", "end"} ->
           text_time(t, IF a.name = "start" THEN "start_time" ELSE "end_time",
                     parse_npt(a.value, checks))
      [] a.name = "type" ->
           [t EXCEPT !.mime = IF a.value = PLAIN THEN Some(TEXT_PLAIN)
                               ELSE IF a.value = HTML THEN Some(TEXT_HTML)
                               ELSE None]
      [] OTHER -> t

\* The loop over the attributes; a panic ends it.
RECURSIVE text_attrs(_, _, _)
text_attrs(attrs, t, checks) ==
    IF attrs = <<>> \/ t = Panic THEN t
    ELSE text_attrs(Tail(attrs), text_attr(Head(attrs), t, checks), checks)

\* element.child_as_text()?.map(..) with the attributes read before.
text_of(element, t) ==
    IF t = Panic THEN Panic
    ELSE IF element.body.k = "err" THEN Err(XmlError)
    ELSE IF element.body.k = "absent" THEN Ok(None)
    ELSE Ok(Some([text |-> [content |-> element.body.s,
                            content_type |-> IF t.mime = None THEN TEXT_PLAIN
                                             ELSE t.mime[1]],
                  start_time |-> t.start_time,
                  end_time |-> t.end_time]))

handle_media_text(element, checks) ==
    text_of(element, text_attrs(element.attrs,
                         [start_time |-> None, end_time |-> None, mime |-> None], checks))

(***************************************************************************)
(* handle_media_community                                                  *)
(***************************************************************************)
RECURSIVE DecNat(_)
DecNat(d) == IF d = <<>> THEN 0 ELSE DecNat(SubSeq(d, 1, Len(d) - 1)) * 10 + DigitVal(d[Len(d)])

RECURSIVE F64Norm(_)
F64Norm(x) ==
    IF x.mant = 0 THEN [neg |-> FALSE, mant |-> 0, scale |-> 0]
    ELSE IF x.scale > 0 /\ x.mant % 10 = 0
    THEN F64Norm([x EXCEPT !.mant = @ \div 10, !.scale = @ - 1])
    ELSE x

\* str::parse::<f64>() on a decimal without exponent: an optional sign, digits
\* with at most one ".", at least one digit.  The value is kept as the exact
\* decimal mant / 10^scale (distinct decimals of at most nine digits are
\* distinct doubles).
parse_f64(str) ==
    LET signed == str # <<>> /\ Head(str) \in {"+", "-"}
        body == IF signed THEN Tail(str) ELSE str
        dots == {i \in 1..Len(body) : body[i] = "."}
        dot == IF dots = {} THEN Len(body) + 1 ELSE CHOOSE i \in dots : TRUE
        int == SubSeq(body, 1, dot - 1)
        frac == SubSeq(body, dot + 1, Len(body))
        digits == int \o frac
    IN  IF /\ Cardinality(dots) <= 1
           /\ digits # <<>>
           /\ Len(digits) <= 9
           /\ \A i \in 1..Len(digits) : digits[i] \in AsciiDigits
        THEN [ok |-> TRUE,
              v |-> F64Norm([neg |-> signed /\ Head(str) = "-",
                             mant |-> DecNat(digits), scale |-> Len(frac)])]
        ELSE ParseFail

F64Zero == [neg |-> FALSE, mant |-> 0, scale |-> 0]

\* MediaCommunity::new(): every field at its default, 0 or 0.0.
MediaCommunityNew ==
    [stars_avg |-> F64Zero, stars_count |-> ZeroLimbs(4), stars_min |-> ZeroLimbs(4),
     stars_max |-> ZeroLimbs(4), stats_views |-> ZeroLimbs(4),
     stats_favorites |-> ZeroLimbs(4)]

\* if_ok_then_some(parse, |v| field = v) on a field of the community record.
KeepOr(old, parsed) == IF parsed.ok THEN parsed.v ELSE old

RECURSIVE star_rating_attrs(_, _)
star_rating_attrs(attrs, c) ==
    IF attrs = <<>> THEN c
    ELSE LET a == Head(attrs)
         IN  star_rating_attrs(Tail(attrs),
               CASE a.name = "average" -> [c EXCEPT !.stars_avg = KeepOr(@, parse_f64(a.value))]
                 [] a.name = "count" -> [c EXCEPT !.stars_count = KeepOr(@, parse_u64(a.value))]
                 [] a.name = "min" -> [c EXCEPT !.stars_min = KeepOr(@, parse_u64(a.value))]
                 [] a.name = "max" -> [c EXCEPT !.stars_max = KeepOr(@, parse_u64(a.value))]
                 [] OTHER -> c)

RECURSIVE statistics_attrs(_, _)
statistics_attrs(attrs, c) ==
    IF attrs = <<>> THEN c
    ELSE LET a == Head(attrs)
         IN  statistics_attrs(Tail(attrs),
               CASE a.name = "views" -> [c EXCEPT !.stats_views = KeepOr(@, parse_u64(a.value))]
                 [] a.name = "favorites" ->
                      [c EXCEPT !.stats_favorites = KeepOr(@, parse_u64(a.value))]
                 [] OTHER -> c)

\* The loop of handle_media_community with a fresh record for every child.
community_child_fresh(child, c) ==
    IF child.ns = MediaRSS /\ child.tag = "starRating"
    THEN star_rating_attrs(child.attrs, MediaCommunityNew)
    ELSE IF child.ns = MediaRSS /\ child.tag = "statistics"
    THEN statistics_attrs(child.attrs, MediaCommunityNew)
    ELSE c

\* One turn of the loop over the children of media:community, for a child the
\* walker decoded.
community_child(child, c) ==
    IF child.ns = MediaRSS /\ child.tag = "starRating" THEN star_rating_attrs(child.attrs, c)
    ELSE IF child.ns = MediaRSS /\ child.tag = "statistics"
    THEN statistics_attrs(child.attrs, c)
    ELSE c

RECURSIVE community_children(_, _)
community_children(children, c) ==
    IF children = <<>> THEN Ok(Some(c))
    ELSE IF Head(children).decode = "err" THEN Err(XmlError)
    ELSE community_children(Tail(children), community_child(Head(children), c))

handle_media_community(element) == community_children(element.children, MediaCommunityNew)

(***************************************************************************)
(* handle_media_element and handle_media_content, which call each other.   *)
(* The accumulator travels with a log of what was done to it: an entry     *)
(* for every element handed to handle_media_element, and an entry for      *)
(* every content record committed.  A result is [res, obj, log]: on an     *)
(* error or a panic obj is the accumulator as the failed call left it.     *)
(***************************************************************************)
MediaObjectNew ==
    [title |-> None, description |-> None, content |-> None, thumbnails |-> <<>>,
     community |-> None, credits |-> <<>>, texts |-> <<>>]

MediaContentNew == [url |-> None, content_type |-> None, width |-> None, height |-> None]

Called(element, obj) == [ev |-> "call", el |-> element, obj |-> obj]

Returned(element, res, obj) == [ev |-> "ret", el |-> element, res |-> res, obj |-> obj]

Committed(element) == [ev |-> "commit", el |-> element]

Ret(res, obj, log) == [res |-> res, obj |-> obj, log |-> log]

RECURSIVE content_attrs(_, _)
content_attrs(attrs, c) ==
    IF attrs = <<>> THEN c
    ELSE LET a == Head(attrs)
         IN  content_attrs(Tail(attrs),
               CASE a.name = "url" -> [c EXCEPT !.url = Some(a.value)]
                 [] a.name = "type" ->
                      [c EXCEPT !.content_type = SetIfOk(@, parse_mime(a.value))]
                 [] a.name = "width" -> [c EXCEPT !.width = SetIfOk(@, parse_u32(a.value))]
                 [] a.name = "height" -> [c EXCEPT !.height = SetIfOk(@, parse_u32(a.value))]
                 [] OTHER -> c)

\* The push of a list replaced by an insertion at its front.
PushFront(list, r) == IF r.v # None THEN <<r.v[1]>> \o list ELSE list

\* if_some_then(handler(element)?, |x| list.push(x)) on one of the lists.
Push(list, r) == IF r.v # None THEN Append(list, r.v[1]) ELSE list

\* `field = handler(element)?`: the field is assigned what the handler gives,
\* or its error is the result and the accumulator is as it was.
Assign(r, obj, log, field) ==
    IF r.kind = "ok" THEN Ret(Ok(<<>>), [obj EXCEPT ![field] = r.v], log) ELSE Ret(r, obj, log)

\* `if_some_then(handler(element)?, |x| obj.field.push(x))`
PushTo(r, obj, log, field) ==
    IF r.kind = "ok" THEN Ret(Ok(<<>>), [obj EXCEPT ![field] = Push(@, r)], log)
    ELSE Ret(r, obj, log)

\* The end of handle_media_content once the loop over its children is through:
\* `media_obj.content = Some(content)` unless a child failed.
Commit(element, content, r) ==
    IF r.res.kind # "ok" THEN r
    ELSE Ret(Ok(<<>>), [r.obj EXCEPT !.content = Some(content)],
             Append(r.log, Committed(element)))

\* The commit only when the element has a url.
CommitIfUrl(element, content, r) ==
    IF r.res.kind = "ok" /\ content.url # None THEN Commit(element, content, r) ELSE r

\* The return of handle_media_element entered in the log (a panic returns nothing).
LogReturn(element, r) ==
    IF r.res.kind = "panic" THEN r
    ELSE Ret(r.res, r.obj, Append(r.log, Returned(element, r.res, r.obj)))

RECURSIVE handle_media_element(_, _, _, _)
RECURSIVE handle_media_content(_, _, _, _)
RECURSIVE media_children(_, _, _, _)
RECURSIVE media_children_lenient(_, _, _, _)

\* One turn of the loop `for child in element.children()`: `child?`, then the
\* dispatch of a MediaRSS element.
media_child(child, obj, log, checks) ==
    IF child.decode = "err" THEN Ret(Err(XmlError), obj, log)
    ELSE IF child.ns # MediaRSS THEN Ret(Ok(<<>>), obj, log)
    ELSE handle_media_element(child, obj, log, checks)

\* The rest of the loop after a turn that gave r: `?` ends it.
media_rest(rest, r, checks) ==
    IF r.res.kind # "ok" THEN r ELSE media_children(rest, r.obj, r.log, checks)

\* The rest of the loop with the `?` on the dispatch dropped.
media_rest_lenient(rest, r, checks) ==
    IF r.res.kind = "panic" \/ r.res = Err(XmlError) THEN r
    ELSE media_children_lenient(rest, r.obj, r.log, checks)

\* The loop with the `?` on the dispatch dropped: a failed dispatch is ignored.
media_children_lenient(children, obj, log, checks) ==
    IF children = <<>> THEN Ret(Ok(<<>>), obj, log)
    ELSE media_rest_lenient(Tail(children), media_child(Head(children), obj, log, checks),
                            checks)

\* handle_media_content with the test of `url` only around the commit: the
\* children are dispatched whether or not the element has a url.
handle_media_content_eager(element, obj, log, checks) ==
    CommitIfUrl(element, content_attrs(element.attrs, MediaContentNew),
                media_children(element.children, obj, log, checks))

\* handle_media_content with the record committed before the children are
\* dispatched.
handle_media_content_commit_first(element, obj, log, checks) ==
    LET content == content_attrs(element.attrs, MediaContentNew)
    IN  IF content.url # None
        THEN media_children(element.children, [obj EXCEPT !.content = Some(content)],
                            Append(log, Committed(element)), checks)
        ELSE Ret(Ok(<<>>), obj, log)

\* The loop `for child in element.children()` of handle_media_group and of
\* handle_media_content: a decode failure or a failed dispatch ends it.
media_children(children, obj, log, checks) ==
    IF children = <<>> THEN Ret(Ok(<<>>), obj, log)
    ELSE media_rest(Tail(children), media_child(Head(children), obj, log, checks), checks)

handle_media_content(element, obj, log, checks) ==
    LET content == content_attrs(element.attrs, MediaContentNew)
    IN  IF content.url # None
        THEN Commit(element, content, media_children(element.children, obj, log, checks))
        ELSE Ret(Ok(<<>>), obj, log)

\* The match of handle_media_element on (namespace, tag).
media_element_match(element, obj, log, checks) ==
    LET tag == IF element.ns = MediaRSS THEN element.tag ELSE ""
    IN  CASE tag = "title" -> Assign(handle_text(element), obj, log, "title")
          [] tag = "content" -> handle_media_content(element, obj, log, checks)
          [] tag = "thumbnail" ->
               PushTo(handle_media_thumbnail(element, checks), obj, log, "thumbnails")
          [] tag = "description" -> Assign(handle_text(element), obj, log, "description")
          [] tag = "community" ->
               Assign(handle_media_community(element), obj, log, "community")
          [] tag = "credit" -> PushTo(handle_media_credit(element), obj, log, "credits")
          [] tag = "text" -> PushTo(handle_media_text(element, checks), obj, log, "texts")
          [] OTHER -> Ret(Ok(<<>>), obj, log)

\* handle_media_element, with the call and (unless it panics) the return logged.
handle_media_element(element, obj, log, checks) ==
    LogReturn(element,
              media_element_match(element, obj, Append(log, Called(element, obj)), checks))

(***************************************************************************)
(* The documents: the children a media:group hands over, one at a time.    *)
(***************************************************************************)
MaxNodes == 3

WEIRD == <<"w", "e", "i", "r", "d">>

TitleEls ==
    {El(MediaRSS, "title", <<>>, <<>>, BodyText("T")),
     El(MediaRSS, "title", <<Attr("type", WEIRD)>>, <<>>, BodyText("T"))}

DescriptionEls ==
    {El(MediaRSS, "description", <<Attr("lang", <<"e", "n">>), Attr("type", HTML)>>,
        <<>>, NoBody)}

ThumbnailEls ==
    {El(MediaRSS, "thumbnail", a, <<>>, NoBody) :
        a \in {<<Attr("url", <<"a">>), Attr("width", <<"6", "4">>), Attr("time", <<"x">>)>>,
               <<Attr("time", <<"1", ":", "0", "2", ":", "0", "3", ".", "5">>),
                 Attr("url", <<"b">>), Attr("height", <<"-", "1">>)>>,
               <<Attr("width", <<"6", "4">>), Attr("time", <<"5">>)>>,
               <<Attr("url", <<"d">>), Attr("time", <<ArabicThree>>)>>}}

CreditEls == {El(MediaRSS, "credit", <<>>, <<>>, BodyText("C"))}

TextEls == {El(MediaRSS, "text", <<Attr("start", <<"5">>)>>, <<>>, NoBody)}

StarRating(attrs) == El(MediaRSS, "starRating", attrs, <<>>, NoBody)

Statistics(attrs) == El(MediaRSS, "statistics", attrs, <<>>, NoBody)

CommunityEls ==
    {El(MediaRSS, "community", <<>>,
        <<StarRating(<<Attr("average", <<"4", ".", "5">>), Attr("count", <<"a", "b", "c">>)>>),
          Statistics(<<Attr("views", <<"3">>)>>)>>, NoBody)}

OtherEls ==
    {El(MediaRSS, "player", <<Attr("url", <<"p">>)>>, <<>>, NoBody),
     El(OtherNS, "title", <<Attr("type", WEIRD)>>, <<>>, NoBody)}

Leaves ==
    TitleEls \cup DescriptionEls \cup ThumbnailEls \cup CreditEls \cup TextEls
        \cup CommunityEls \cup OtherEls \cup {DecodeErr}

ContentAttrs ==
    {<<Attr("url", <<"u">>), Attr("type", <<"a", "/", "b">>), Attr("width", <<"6", "4">>)>>,
     <<Attr("width", <<"x">>), Attr("height", <<"7">>), Attr("url", <<"v">>)>>,
     <<Attr("type", <<"a", "/", "b">>), Attr("width", <<"6", "4">>), Attr("height", <<"7">>)>>}

\* The number of elements of a tree: the nested children of media:content count.
RECURSIVE Size(_)
Size(e) ==
    IF e.decode = "ok" /\ e.tag = "content"
    THEN LET RECURSIVE Sum(_)
             Sum(kids) == IF kids = <<>> THEN 0 ELSE Size(Head(kids)) + Sum(Tail(kids))
         IN  1 + Sum(e.children)
    ELSE 1

\* The element trees of exactly n elements, and the sequences of trees of
\* exactly n elements in all (ForestsFrom: those whose first tree has k or more).
RECURSIVE Trees(_)
RECURSIVE Forests(_)
RECURSIVE ForestsFrom(_, _)
Trees(n) ==
    {El(MediaRSS, "content", a, kids, NoBody) : a \in ContentAttrs, kids \in Forests(n - 1)}
        \cup (IF n = 1 THEN Leaves ELSE {})

ForestsFrom(n, k) ==
    IF k > n THEN {}
    ELSE {<<t>> \o f : t \in Trees(k), f \in Forests(n - k)} \cup ForestsFrom(n, k + 1)

Forests(n) == IF n = 0 THEN {<<>>} ELSE ForestsFrom(n, 1)

\* The trees by their number of elements.
TreesOf == [k \in 1..MaxNodes |-> Trees(k)]

RECURSIVE Nodes(_)
Nodes(forest) == IF forest = <<>> THEN 0 ELSE Size(Head(forest)) + Nodes(Tail(forest))

(***************************************************************************)
(* NPT texts the decoder is applied to.                                    *)
(***************************************************************************)
MaxTextLen == 3

MaxFracLen == 3

NptAlphabet == {"0", "5", ":", ".", "x", ArabicThree}

RECURSIVE SeqsUpTo(_, _)
SeqsUpTo(S, n) == IF n = 0 THEN {<<>>} ELSE [1..n -> S] \cup SeqsUpTo(S, n - 1)

Nines(n) == [i \in 1..n |-> "9"]

U64MaxText ==
    <<"1", "8", "4", "4", "6", "7", "4", "4", "0", "7",
      "3", "7", "0", "9", "5", "5", "1", "6", "1", "5">>

\* The largest hour count whose product with 3600 fits in a u64.
MaxHoursText ==
    <<"5", "1", "2", "4", "0", "9", "5", "5", "7", "6", "0", "3", "0", "4", "3", "1">>

\* The texts of test_parse_npt, and one the decoder is to drop.
TestTexts ==
    {<<"1", "2", ":", "0", "5", ":", "3", "5">>,
     <<"1", "2", ":", "0", "5", ":", "3", "5", ".", "1", "2", "3">>,
     <<"1", "2", "3", ".", "4", "5">>,
     <<"n", "o", "t", "-", "a", "-", "t", "i", "m", "e">>}

\* Second and hour counts at and beyond the width of a u64.
WideTexts ==
    {U64MaxText, U64MaxText \o <<"0">>, <<"0", "0">> \o U64MaxText, Nines(20),
     MaxHoursText \o <<":", "0", "0", ":", "1", "5">>,
     MaxHoursText \o <<":", "0", "0", ":", "1", "6">>,
     Nines(16) \o <<":", "5", "9", ":", "5", "9">>,
     Nines(20) \o <<":", "0", "0", ":", "0", "0">>}

\* Every fraction of at most MaxFracLen digits, under both grammars, and the
\* same whole seconds without a fraction.
FracTexts(n) ==
    {pre \o <<".">> \o f :
        pre \in {<<"7">>, <<"0", ":", "0", "0", ":", "0", "7">>},
        f \in SeqsUpTo(AsciiDigits, n)}

Pending == [kind |-> "pending"]

NptTexts(len, frac) ==
    SeqsUpTo(NptAlphabet, len) \cup TestTexts \cup WideTexts \cup FracTexts(frac)

InitNpt ==
    /\ npt_text \in NptTexts(MaxTextLen, MaxFracLen)
    /\ overflow_checks \in BOOLEAN
    /\ npt_out = Pending
    /\ media_obj = MediaObjectNew
    /\ doc = <<>>
    /\ trace = <<>>
    /\ result = Pending

ParseNpt ==
    /\ npt_out = Pending
    /\ npt_out' = parse_npt(npt_text, overflow_checks)
    /\ UNCHANGED <<npt_text, overflow_checks, group_vars>>

NextNpt == ParseNpt

SpecNpt == InitNpt /\ [][NextNpt]_vars

(***************************************************************************)
(* handle_media_group, one child of the group at a time.  The build has    *)
(* overflow checks on; the durations on which the two builds differ are    *)
(* those of SpecNpt.                                                       *)
(***************************************************************************)
Init ==
    /\ media_obj = MediaObjectNew
    /\ doc = <<>>
    /\ trace = <<>>
    /\ result = Pending
    /\ overflow_checks = TRUE
    /\ npt_text = <<>>
    /\ npt_out = Pending

\* One turn of the loop of handle_media_group on the child the iterator yields.
GroupChild(child) ==
    /\ result = Pending
    /\ doc' = Append(doc, child)
    /\ LET r == media_children(<<child>>, media_obj, trace, overflow_checks)
       IN  /\ media_obj' = r.obj
           /\ trace' = r.log
           /\ result' = IF r.res.kind = "ok" THEN Pending ELSE r.res
    /\ UNCHANGED <<overflow_checks, npt_vars>>

\* The iterator is exhausted: Ok(Some(media_obj)).
GroupEnd ==
    /\ result = Pending
    /\ result' = Ok(Some(media_obj))
    /\ UNCHANGED <<media_obj, doc, trace, overflow_checks, npt_vars>>

Next ==
    \/ /\ result = Pending
       /\ \E k \in 1..(MaxNodes - Nodes(doc)) : \E child \in TreesOf[k] : GroupChild(child)
    \/ GroupEnd

Spec == Init /\ [][Next]_vars

(***************************************************************************)
(* The same group, over every shape of title and description.              *)
(***************************************************************************)
MaxTextChildren == 2

HandleTextEls ==
    {El(MediaRSS, tag, ty, <<>>, b) :
        tag \in {"title", "description"},
        ty \in {<<>>, <<Attr("type", PLAIN)>>, <<Attr("type", HTML)>>,
                <<Attr("type", WEIRD)>>,
                <<Attr("lang", <<"e", "n">>), Attr("type", HTML)>>},
        b \in {BodyText("T"), BodyText("<b>U</b>"), NoBody, BodyErr}}

NextText ==
    \/ /\ result = Pending /\ Len(doc) < MaxTextChildren
       /\ \E child \in HandleTextEls : GroupChild(child)
    \/ GroupEnd

SpecText == Init /\ [][NextText]_vars

(***************************************************************************)
(* A group of one media:community, over the shapes of its children.        *)
(***************************************************************************)
MaxCommunityChildren == 2

StarRatingAttrs ==
    {avg \o cnt \o mm :
        avg \in {<<>>, <<Attr("average", <<"4", ".", "5">>)>>,
                 <<Attr("average", <<"a", "b", "c">>)>>},
        cnt \in {<<>>, <<Attr("count", <<"1", "0">>)>>, <<Attr("count", <<"-", "1">>)>>},
        mm \in {<<>>, <<Attr("min", <<"1">>), Attr("max", <<"5">>)>>,
                <<Attr("max", <<"+", "9">>), Attr("min", <<"x">>)>>}}

StatisticsAttrs ==
    {v \o f :
        v \in {<<>>, <<Attr("views", <<"3">>)>>, <<Attr("views", <<"1", "e", "3">>)>>},
        f \in {<<>>, <<Attr("favorites", <<"7">>)>>, <<Attr("favorites", <<>>)>>}}

CommunityKids ==
    {StarRating(a) : a \in StarRatingAttrs} \cup {Statistics(a) : a \in StatisticsAttrs}
        \cup {El(MediaRSS, "rating", <<Attr("average", <<"9">>)>>, <<>>, NoBody),
              El(OtherNS, "starRating", <<Attr("count", <<"9">>)>>, <<>>, NoBody),
              DecodeErr}

CommunityMenu(n) ==
    {El(MediaRSS, "community", <<>>, kids, NoBody) : kids \in SeqsUpTo(CommunityKids, n)}

NextCommunity ==
    \/ /\ result = Pending /\ doc = <<>>
       /\ \E child \in CommunityMenu(MaxCommunityChildren) : GroupChild(child)
    \/ GroupEnd

SpecCommunity == Init /\ [][NextCommunity]_vars

(***************************************************************************)
(* Reading the trace.                                                      *)
(***************************************************************************)
Calls == {i \in 1..Len(trace) : trace[i].ev = "call"}

IsMedia(el, tag) == el.decode = "ok" /\ el.ns = MediaRSS /\ el.tag = tag

HasAttr(el, name) == \E k \in 1..Len(el.attrs) : el.attrs[k].name = name

\* The value of the only attribute of that name.
AttrValue(el, name) ==
    el.attrs[CHOOSE k \in 1..Len(el.attrs) : el.attrs[k].name = name].value

\* Calls less returns among trace[i..j].
Balance(i, j) ==
    Cardinality({k \in i..j : trace[k].ev = "call"})
        - Cardinality({k \in i..j : trace[k].ev = "ret"})

HasReturned(i) == \E j \in (i + 1)..Len(trace) : Balance(i, j) = 0

\* The index of the return of the call at i.
RetIndex(i) ==
    CHOOSE j \in (i + 1)..Len(trace) :
        Balance(i, j) = 0 /\ \A j2 \in (i + 1)..(j - 1) : Balance(i, j2) # 0

IsCall(entry) == entry.ev = "call"

\* The elements handed to handle_media_element, in the order of the calls.
CalledEls == LET c == SelectSeq(trace, IsCall) IN [k \in 1..Len(c) |-> c[k].el]

IsPrefix(a, b) == Len(a) <= Len(b) /\ a = SubSeq(b, 1, Len(a))

OkUnit == Ok(<<>>)

\* C1: a media:content without `url` handed to handle_media_element returns
\* success at once: no child of it is dispatched and the accumulator is as it
\* was, whatever its other attributes and children are.
C1_ContentWithoutUrlDiscarded ==
    /\ \A i \in Calls :
          IsMedia(trace[i].el, "content") /\ ~HasAttr(trace[i].el, "url")
              => /\ i < Len(trace)
                 /\ trace[i + 1] = Returned(trace[i].el, OkUnit, trace[i].obj)
    /\ (trace # <<>> /\ trace[Len(trace)].ev = "ret") => media_obj = trace[Len(trace)].obj

C1_Witness ==
    \E i \in Calls :
        /\ IsMedia(trace[i].el, "content") /\ ~HasAttr(trace[i].el, "url")
        /\ trace[i].el.attrs # <<>>
        /\ \E k \in 1..Len(trace[i].el.children) :
              LET kid == trace[i].el.children[k]
              IN  IsMedia(kid, "title") /\ HasAttr(kid, "type")
                  /\ AttrValue(kid, "type") = WEIRD
        /\ trace[i].obj # MediaObjectNew
        /\ HasReturned(i)

\* The field a title or description element is assigned to.
TextField(obj, el) == IF el.tag = "title" THEN obj.title ELSE obj.description

IsTextEl(el) == IsMedia(el, "title") \/ IsMedia(el, "description")

\* C2: a dispatched title or description whose `type` is neither "plain" nor
\* "html" fails with UnknownMimeType(that value) and leaves the accumulator
\* alone; without `type` and with child content it succeeds and stores the
\* content as text/plain; with "html" it stores it as text/html.
C2_TextMimeType ==
    \A i \in Calls :
        LET el == trace[i].el
        IN  IsTextEl(el) =>
              /\ (HasAttr(el, "type") /\ AttrValue(el, "type") \notin {PLAIN, HTML})
                    => /\ i < Len(trace)
                       /\ trace[i + 1] = Returned(el, Err(UnknownMimeType(AttrValue(el, "type"))),
                                                  trace[i].obj)
              /\ (~HasAttr(el, "type") /\ el.body.k = "text")
                    => /\ i < Len(trace)
                       /\ trace[i + 1].ev = "ret" /\ trace[i + 1].res = OkUnit
                       /\ TextField(trace[i + 1].obj, el)
                             = Some([content |-> el.body.s, content_type |-> TEXT_PLAIN])
              /\ (HasAttr(el, "type") /\ AttrValue(el, "type") = HTML /\ el.body.k = "text")
                    => /\ i < Len(trace)
                       /\ trace[i + 1].ev = "ret" /\ trace[i + 1].res = OkUnit
                       /\ TextField(trace[i + 1].obj, el)
                             = Some([content |-> el.body.s, content_type |-> TEXT_HTML])

C2_Witness ==
    /\ \E i \in Calls :
          /\ IsMedia(trace[i].el, "title") /\ HasAttr(trace[i].el, "type")
          /\ AttrValue(trace[i].el, "type") = WEIRD
          /\ trace[i].obj.title # None
          /\ trace[i].obj.title[1].content_type = TEXT_PLAIN
    /\ result.kind = "err"

\* C3 as stated: a title or description with a `type` attribute and no child
\* content fails with MissingContent, whatever the value of `type`.
C3_MissingContentWhateverType ==
    \A i \in Calls :
        LET el == trace[i].el
        IN  (IsTextEl(el) /\ HasAttr(el, "type") /\ el.body.k = "absent")
              => /\ i < Len(trace)
                 /\ trace[i + 1] = Returned(el, Err(MissingContent("text")), trace[i].obj)

\* C3, amended: the value of `type` is checked first.  With "plain" or "html"
\* and no child content the fault is MissingContent; with any other value it
\* is UnknownMimeType; either way the title/description is not assigned.
C3_MissingContentAfterType ==
    \A i \in Calls :
        LET el == trace[i].el
        IN  (IsTextEl(el) /\ HasAttr(el, "type") /\ el.body.k = "absent")
              => /\ i < Len(trace)
                 /\ trace[i + 1] =
                       Returned(el,
                                IF AttrValue(el, "type") \in {PLAIN, HTML}
                                THEN Err(MissingContent("text"))
                                ELSE Err(UnknownMimeType(AttrValue(el, "type"))),
                                trace[i].obj)

C3_Witness ==
    /\ \E i \in Calls :
          /\ IsMedia(trace[i].el, "description") /\ HasAttr(trace[i].el, "type")
          /\ AttrValue(trace[i].el, "type") = HTML
          /\ trace[i].el.body.k = "absent"
          /\ trace[i].obj.description # None
    /\ result = Err(MissingContent("text"))

\* The uri of the thumbnail a media:thumbnail element with `url` stands for.
IsUrlThumbnail(el) == IsMedia(el, "thumbnail") /\ HasAttr(el, "url")

UrlThumbnailUris ==
    LET t == SelectSeq(CalledEls, IsUrlThumbnail)
    IN  [k \in 1..Len(t) |-> AttrValue(t[k], "url")]

Snapshots == {i \in 1..Len(trace) : trace[i].ev \in {"call", "ret"}}

\* C7: once the group has returned Ok, the thumbnails are, in the order of
\* the dispatches, one for each dispatched media:thumbnail that has `url`
\* and none for those that have not; and no dispatch ever removes or
\* reorders what the list already holds.
C7_ThumbnailsInDispatchOrder ==
    /\ result.kind = "ok" =>
          [k \in 1..Len(media_obj.thumbnails) |-> media_obj.thumbnails[k].image.uri]
             = UrlThumbnailUris
    /\ \A i, j \in Snapshots :
          i < j => IsPrefix(trace[i].obj.thumbnails, trace[j].obj.thumbnails)

C7_Witness ==
    /\ result.kind = "ok"
    /\ Len(media_obj.thumbnails) = 2
    /\ media_obj.thumbnails[1].image.uri # media_obj.thumbnails[2].image.uri
    /\ \E k \in 1..Len(CalledEls) :
          IsMedia(CalledEls[k], "thumbnail") /\ ~HasAttr(CalledEls[k], "url")

\* What the walk of a sequence of children comes to, in document order: the
\* decode failures and the MediaRSS elements, and below a media:content that
\* has `url` its own children likewise.
RECURSIVE Visit(_)
Visit(forest) ==
    IF forest = <<>> THEN <<>>
    ELSE LET c == Head(forest)
         IN  (IF c.decode = "err" THEN <<c>>
              ELSE IF c.ns # MediaRSS THEN <<>>
              ELSE <<c>> \o (IF c.tag = "content" /\ HasAttr(c, "url")
                             THEN Visit(c.children) ELSE <<>>))
             \o Visit(Tail(forest))

\* An attribute decoded as NPT whose decoding aborts the thread.
Aborts(x) ==
    /\ x.decode = "ok"
    /\ \E k \in 1..Len(x.attrs) :
          /\ \/ x.tag = "thumbnail" /\ x.attrs[k].name = "time"
             \/ x.tag = "text" /\ x.attrs[k].name \in {"start", "end"}
          /\ parse_npt(x.attrs[k].value, overflow_checks) = Panic

\* The hard faults: a decode failure of the walker (of a child, or of the
\* text of an element), and a title or description with an unknown `type`
\* or without content.
HardFault(x) ==
    \/ x.decode = "err"
    \/ /\ x.tag \in {"title", "description"}
       /\ \/ HasAttr(x, "type") /\ AttrValue(x, "type") \notin {PLAIN, HTML}
          \/ x.body.k # "text"
    \/ x.tag = "community" /\ \E k \in 1..Len(x.children) : x.children[k].decode = "err"
    \/ x.tag \in {"credit", "text"} /\ x.body.k = "err"

\* The walk, up to and including the first element that stops it.
Seen ==
    LET v == Visit(doc)
        stops == {k \in 1..Len(v) : HardFault(v[k]) \/ Aborts(v[k])}
    IN  IF stops = {} THEN v
        ELSE SubSeq(v, 1, CHOOSE k \in stops : \A k2 \in stops : k <= k2)

IsElement(x) == x.decode = "ok"

\* C9: the group is walked in document order and the walk ends at the first
\* hard fault: the elements dispatched are those of the walk up to that
\* fault and none after it, and the group returns an error exactly when the
\* walk met a hard fault; what is only a soft fault never makes it an error.
C9_DocumentOrderShortCircuit ==
    LET seen == Seen
    IN  /\ CalledEls = SelectSeq(seen, IsElement)
        /\ result.kind = "err" <=>
              (seen # <<>> /\ HardFault(seen[Len(seen)]) /\ ~Aborts(seen[Len(seen)]))

C9_Witness ==
    /\ result.kind = "err"
    /\ Len(Visit(doc)) > Len(Seen)
    /\ Len(CalledEls) = 2
    /\ IsMedia(CalledEls[1], "content")

C9_WitnessSoft ==
    /\ result.kind = "ok"
    /\ \E k \in 1..Len(CalledEls) :
          IsMedia(CalledEls[k], "thumbnail") /\ ~HasAttr(CalledEls[k], "url")
    /\ \E k \in 1..Len(CalledEls) :
          IsMedia(CalledEls[k], "text") /\ CalledEls[k].body.k = "absent"

\* The last attribute of that name whose value the parser accepts, as the
\* optional field it leaves.
LastParsed(el, name, P(_)) ==
    LET good == {k \in 1..Len(el.attrs) : el.attrs[k].name = name /\ P(el.attrs[k].value).ok}
    IN  IF good = {} THEN None
        ELSE Some(P(el.attrs[CHOOSE k \in good : \A k2 \in good : k2 <= k].value).v)

\* The record of a media:content element's own attributes.
OwnContent(el) ==
    [url |-> Some(AttrValue(el, "url")),
     content_type |-> LastParsed(el, "type", parse_mime),
     width |-> LastParsed(el, "width", parse_u32),
     height |-> LastParsed(el, "height", parse_u32)]

\* The MediaRSS children of an element, in document order.
MediaKids(el) == LET M(c) == c.decode = "ok" /\ c.ns = MediaRSS IN SelectSeq(el.children, M)

\* The elements called directly from within the call at i that returned at j.
DirectCalls(i, j) ==
    LET idx == {k \in (i + 1)..(j - 1) : trace[k].ev = "call" /\ Balance(i, k) = 2}
        Nth[n \in 1..Cardinality(idx)] ==
            CHOOSE k \in idx : Cardinality({k2 \in idx : k2 < k}) = n - 1
    IN  [n \in 1..Cardinality(idx) |-> trace[Nth[n]].el]

\* C10: when the dispatch of a media:content with `url` succeeds, all its
\* MediaRSS children were dispatched first, in order, against the same
\* accumulator; its record was committed last; on return `content` is the
\* record of its own attributes, and every other field is as the children
\* left it.
C10_ContentCommittedLast ==
    \A i \in Calls :
        LET el == trace[i].el
        IN  (IsMedia(el, "content") /\ HasAttr(el, "url") /\ HasReturned(i)
                /\ trace[RetIndex(i)].res = OkUnit)
              => LET j == RetIndex(i)
                 IN  /\ trace[j].obj.content = Some(OwnContent(el))
                     /\ trace[j - 1] = Committed(el)
                     /\ DirectCalls(i, j) = MediaKids(el)
                     /\ trace[j].obj = [trace[j - 2].obj EXCEPT !.content = Some(OwnContent(el))]

C10_Witness ==
    \E i \in Calls :
        /\ IsMedia(trace[i].el, "content") /\ HasAttr(trace[i].el, "url")
        /\ HasReturned(i)
        /\ trace[RetIndex(i)].res = OkUnit
        /\ Len(MediaKids(trace[i].el)) = 2
        /\ IsMedia(MediaKids(trace[i].el)[1], "content")
        /\ HasAttr(MediaKids(trace[i].el)[1], "url")
        /\ trace[RetIndex(i) - 2].obj.content # None
        /\ trace[RetIndex(i) - 2].obj.content # trace[RetIndex(i)].obj.content
        /\ trace[RetIndex(i)].obj.thumbnails # <<>>

\* The value the last accepted attribute `name` on a child `tag` of the
\* community element leaves in a field, or the default when there is none.
\* Children and attributes are taken in document order.
LastAccepted(el, tag, name, P(_), default) ==
    LET good == {ka \in (1..Len(el.children)) \X (1..4) :
                    LET c == el.children[ka[1]]
                    IN  /\ c.decode = "ok" /\ c.ns = MediaRSS /\ c.tag = tag
                        /\ ka[2] <= Len(c.attrs)
                        /\ c.attrs[ka[2]].name = name
                        /\ P(c.attrs[ka[2]].value).ok}
        Later(x, y) == x[1] > y[1] \/ (x[1] = y[1] /\ x[2] >= y[2])
    IN  IF good = {} THEN default
        ELSE LET ka == CHOOSE x \in good : \A y \in good : Later(x, y)
             IN  P(el.children[ka[1]].attrs[ka[2]].value).v

ExpectedCommunity(el) ==
    [stars_avg |-> LastAccepted(el, "starRating", "average", parse_f64, F64Zero),
     stars_count |-> LastAccepted(el, "starRating", "count", parse_u64, ZeroLimbs(4)),
     stars_min |-> LastAccepted(el, "starRating", "min", parse_u64, ZeroLimbs(4)),
     stars_max |-> LastAccepted(el, "starRating", "max", parse_u64, ZeroLimbs(4)),
     stats_views |-> LastAccepted(el, "statistics", "views", parse_u64, ZeroLimbs(4)),
     stats_favorites |-> LastAccepted(el, "statistics", "favorites", parse_u64, ZeroLimbs(4))]

DecodesWell(el) == \A k \in 1..Len(el.children) : el.children[k].decode = "ok"

\* C8: a media:community whose children decode always yields a record,
\* whatever the attribute values are.  Each field holds the value of the last
\* attribute for it that parses, among the starRating (statistics) children
\* in order, and its default when none parses; without such children the
\* record is the default one.  Only a decode failure of a child is a fault.
C8_CommunityBestEffort ==
    \A i \in Calls :
        LET el == trace[i].el
        IN  IsMedia(el, "community") =>
              /\ i < Len(trace) /\ trace[i + 1].ev = "ret"
              /\ DecodesWell(el) =>
                    /\ trace[i + 1].res = OkUnit
                    /\ trace[i + 1].obj.community = Some(ExpectedCommunity(el))
              /\ (\A k \in 1..Len(el.children) :
                     /\ el.children[k].decode = "ok"
                     /\ ~IsMedia(el.children[k], "starRating")
                     /\ ~IsMedia(el.children[k], "statistics"))
                    => trace[i + 1].obj.community = Some(MediaCommunityNew)
              /\ ~DecodesWell(el) => trace[i + 1] = Returned(el, Err(XmlError), trace[i].obj)

C8_Witness ==
    /\ result.kind = "ok"
    /\ media_obj.community # None
    /\ ToNat(media_obj.community[1].stars_count) = 10
    /\ media_obj.community[1].stars_avg = [neg |-> FALSE, mant |-> 45, scale |-> 1]
    /\ LET kids == doc[1].children
       IN  /\ Len(kids) = 2
           /\ IsMedia(kids[2], "starRating")
           /\ HasAttr(kids[2], "count") /\ ~parse_u64(AttrValue(kids[2], "count")).ok
           /\ HasAttr(kids[2], "average") /\ ~parse_f64(AttrValue(kids[2], "average")).ok
           /\ HasAttr(kids[2], "max") /\ parse_u64(AttrValue(kids[2], "max")).ok

\* The two grammars of the NPT decoder, read over the whole text.
AsciiRun(t, a, b) == a <= b /\ \A k \in a..b : At(t, k) \in AsciiDigits

\* Nothing, or a "." and digits, from p to the end of the text.
FracTail(t, p) == p = Len(t) + 1 \/ (At(t, p) = "." /\ AsciiRun(t, p + 1, Len(t)))

\* The position of the first ":" of a text of the form H:MM:SS[.fraction].
HhmmssColon(t) ==
    {j \in 2..Len(t) :
        /\ AsciiRun(t, 1, j - 1) /\ t[j] = ":"
        /\ AsciiRun(t, j + 1, j + 2) /\ At(t, j + 3) = ":"
        /\ AsciiRun(t, j + 4, j + 5) /\ FracTail(t, j + 6)}

\* The length of the seconds of a text of the form S[.fraction].
SecDigits(t) == {j \in 1..Len(t) : AsciiRun(t, 1, j) /\ FracTail(t, j + 1)}

\* C4 as stated: a text of the form H:MM:SS[.fraction] gives
\* hours * 3600 + minutes * 60 + seconds whole seconds; otherwise a text of the
\* form S[.fraction] gives S whole seconds; every other text gives no value;
\* and no text is accepted by both patterns.  (Whole seconds are compared
\* where they fit 32-bit integer arithmetic.)
C4_TwoGrammarsOverWholeText ==
    npt_out # Pending =>
      /\ \A j \in HhmmssColon(npt_text) :
            j <= 5 =>
              /\ npt_out.kind = "some" /\ IsSmall(npt_out.secs)
              /\ ToNat(npt_out.secs) =
                    DecNat(SubSeq(npt_text, 1, j - 1)) * 3600
                      + DecNat(SubSeq(npt_text, j + 1, j + 2)) * 60
                      + DecNat(SubSeq(npt_text, j + 4, j + 5))
      /\ \A j \in SecDigits(npt_text) :
            j <= 9 =>
              /\ npt_out.kind = "some" /\ IsSmall(npt_out.secs)
              /\ ToNat(npt_out.secs) = DecNat(SubSeq(npt_text, 1, j))
      /\ (HhmmssColon(npt_text) = {} /\ SecDigits(npt_text) = {}) => npt_out = NoValue
      /\ ~(NPT_HHMMSS(npt_text).matched /\ NPT_SEC(npt_text).matched)

\* The captures parse_npt works from.
NptCaptures == IF NPT_HHMMSS(npt_text).matched THEN NPT_HHMMSS(npt_text) ELSE NPT_SEC(npt_text)

\* C5 as stated: a fraction of n digits adds floor(1000 * int(fraction) / 10^n)
\* milliseconds under either grammar, and no fraction adds none.
C5_FractionIsFloorOfThousandths ==
    npt_out.kind = "some" =>
        LET f == NptCaptures.f
        IN  npt_out.ms = IF f.some THEN (1000 * DecNat(f.str)) \div (10 ^ Len(f.str)) ELSE 0

\* C6 as stated: decoding a duration attribute never aborts.
C6_DecodingNeverAborts == npt_out # Panic

====
